---- MODULE Spec2Model ----
(***************************************************************************)
(* A model of ssh_file.py: one call of transfer_interactive_python, which  *)
(* pushes a local file to a remote host by driving a remote shell with     *)
(* `> path`, `printf "<octal>" >> path`, `wc -c < path` and `exit`.        *)
(*                                                                         *)
(* The control machine's side is translated statement by statement; the    *)
(* remote host, the local tools and the network are the environment, whose *)
(* answers (a tool is missing, a call raises, a command exits non-zero,    *)
(* the ssh process does not exit in time) are chosen with \E.              *)
(***************************************************************************)
EXTENDS Integers, Sequences, FiniteSets, TLC

(***************************************************************************)
(* Bounds of the model.  The buffers tried are k full chunks plus a tail,  *)
(* for both chunk sizes of the program.                                    *)
(***************************************************************************)
MaxFullChunks == 2

(* the longest run of the bytes 0x00, 0x0A, 0x22, 0x5C tried as one chunk *)
MaxEscapeRun == 4

(* the tail of the buffer: none, one byte, or the 448 bytes of
   2048 = 2 * 800 + 448 *)
TailLens == {0, 1, 448}

(***************************************************************************)
(* Program constants.                                                      *)
(***************************************************************************)
PARAMIKO_CHUNK_SIZE == 800
WINDOWS_CHUNK_SIZE == 500
SSHPASS_CHUNK_SIZE == 800
BASIC_CHUNK_SIZE == 800

Backends == {"paramiko", "windows_openssh", "sshpass", "subprocess_basic"}
PipeBackends == {"windows_openssh", "sshpass", "subprocess_basic"}

chunk_size(b) ==
    CASE b = "paramiko" -> PARAMIKO_CHUNK_SIZE
      [] b = "windows_openssh" -> WINDOWS_CHUNK_SIZE
      [] b = "sshpass" -> SSHPASS_CHUNK_SIZE
      [] OTHER -> BASIC_CHUNK_SIZE

ChunkSizes == {chunk_size(b) : b \in Backends}

Lengths == {k * S + t : k \in 0..MaxFullChunks, S \in ChunkSizes, t \in TailLens}

(* the bytes of the local file of length L: every byte value 0..255 occurs
   in any 256 consecutive positions *)
FileBytes(L) == [k \in 1..L |-> ((k - 1) * 7) % 256]

(* what the remote path holds before the call *)
StaleRemote == <<115, 116, 97, 108, 101>>

Min(a, b) == IF a < b THEN a ELSE b

(***************************************************************************)
(* Python helpers.                                                         *)
(***************************************************************************)

(* `if password:` -- None and "" are falsy *)
Truthy(p) == p # ""

(* s[a:b] with the fault of starting one element late *)
SliceFromNext(s, a, b) == SubSeq(s, a + 2, Min(b, Len(s)))

(* s[a:b] for 0 <= a <= b *)
Slice(s, a, b) == SubSeq(s, a + 1, Min(b, Len(s)))

(* the fault of a loop that runs once more when j has reached the end *)
InRangeInclusive(j, L) == j <= L

(* `for i in range(0, len(file_data), chunk_size)`: the loop runs for j *)
InRange(j, L) == j < L

(* (len(file_data) + chunk_size - 1) // chunk_size *)
total_chunks(L, S) == (L + S - 1) \div S

DigitChars == <<"0", "1", "2", "3", "4", "5", "6", "7", "8", "9">>

(* oct(b)[2:] : the octal digits of b, most significant first, no padding *)
RECURSIVE OctDigits(_)
OctDigits(b) ==
    IF b < 8 THEN <<DigitChars[b + 1]>>
    ELSE Append(OctDigits(b \div 8), DigitChars[(b % 8) + 1])

(* str.zfill(w) *)
zfill(s, w) == IF Len(s) >= w THEN s ELSE [k \in 1..(w - Len(s)) |-> "0"] \o s

(* the escape with the fault of no zero padding *)
EscapeByteUnpadded(b) == <<"\\">> \o OctDigits(b)

(* f'\\{oct(b)[2:].zfill(3)}' *)
EscapeByte(b) == <<"\\">> \o zfill(OctDigits(b), 3)

(* ''.join(... for b in chunk), over chunk[lo..hi] *)
RECURSIVE JoinEscapes(_, _, _)
JoinEscapes(chunk, lo, hi) ==
    IF lo > hi THEN <<>>
    ELSE IF lo = hi THEN EscapeByte(chunk[lo])
    ELSE LET mid == (lo + hi) \div 2
         IN JoinEscapes(chunk, lo, mid) \o JoinEscapes(chunk, mid + 1, hi)

octal_data(chunk) == JoinEscapes(chunk, 1, Len(chunk))

(***************************************************************************)
(* The remote shell's printf: a backslash followed by one to three octal   *)
(* digits is the byte of that value (mod 256); any other character is      *)
(* itself (its code is not needed here: 256 + its position marks it).      *)
(***************************************************************************)
IsOctChar(c) == c \in {"0", "1", "2", "3", "4", "5", "6", "7"}

DigitVal(c) == CHOOSE d \in 0..9 : DigitChars[d + 1] = c

PrintfToken(s, p) ==
    IF s[p] = "\\" /\ p < Len(s) /\ IsOctChar(s[p + 1])
    THEN LET n == IF p + 2 <= Len(s) /\ IsOctChar(s[p + 2])
                  THEN (IF p + 3 <= Len(s) /\ IsOctChar(s[p + 3]) THEN 3 ELSE 2)
                  ELSE 1
             v == IF n = 1 THEN DigitVal(s[p + 1])
                  ELSE IF n = 2 THEN 8 * DigitVal(s[p + 1]) + DigitVal(s[p + 2])
                  ELSE 64 * DigitVal(s[p + 1]) + 8 * DigitVal(s[p + 2])
                       + DigitVal(s[p + 3])
         IN [out |-> <<v % 256>>, next |-> p + n + 1]
    ELSE [out |-> <<256 + p>>, next |-> p + 1]

(* the tokens that start in s[lo..hi], the first one at lo *)
RECURSIVE PrintfScan(_, _, _)
PrintfScan(s, lo, hi) ==
    IF lo > hi THEN [out |-> <<>>, next |-> lo]
    ELSE IF lo = hi THEN PrintfToken(s, lo)
    ELSE LET mid == (lo + hi) \div 2
             l == PrintfScan(s, lo, mid)
             r == PrintfScan(s, l.next, hi)
         IN [out |-> l.out \o r.out, next |-> r.next]

RemotePrintf(s) == PrintfScan(s, 1, Len(s)).out

(***************************************************************************)
(* str.strip() and int() on the byte-count response.                       *)
(***************************************************************************)
IsSpace(c) == c \in {" ", "\n", "\t", "\r"}

RECURSIVE lstrip(_)
lstrip(s) == IF s # <<>> /\ IsSpace(Head(s)) THEN lstrip(Tail(s)) ELSE s

RECURSIVE rstrip(_)
rstrip(s) ==
    IF s # <<>> /\ IsSpace(s[Len(s)]) THEN rstrip(SubSeq(s, 1, Len(s) - 1)) ELSE s

strip(s) == rstrip(lstrip(s))

IsDigitChar(c) == \E d \in 1..10 : DigitChars[d] = c

RECURSIVE DecimalValue(_)
DecimalValue(s) ==
    IF s = <<>> THEN 0
    ELSE 10 * DecimalValue(SubSeq(s, 1, Len(s) - 1)) + DigitVal(s[Len(s)])

(* int(s): ok with the number, or not ok (ValueError) *)
int(s) ==
    LET t == strip(s)
        signed == t # <<>> /\ t[1] \in {"+", "-"}
        body == IF signed THEN Tail(t) ELSE t
    IN IF body = <<>> \/ \E k \in 1..Len(body) : ~IsDigitChar(body[k])
       THEN [ok |-> FALSE, val |-> 0]
       ELSE IF signed /\ t[1] = "-" THEN [ok |-> TRUE, val |-> 0 - DecimalValue(body)]
       ELSE [ok |-> TRUE, val |-> DecimalValue(body)]

(* str(n) for n >= 0 *)
RECURSIVE DecimalDigits(_)
DecimalDigits(n) ==
    IF n < 10 THEN <<DigitChars[n + 1]>>
    ELSE Append(DecimalDigits(n \div 10), DigitChars[(n % 10) + 1])

(* what `wc -c < path` can print for a file of n bytes: GNU wc, BSD wc
   (padded), or nothing on standard output when the command fails *)
WcResponses(n) ==
    { DecimalDigits(n) \o <<"\n">>,
      <<" ", " ">> \o DecimalDigits(n) \o <<"\n">>,
      <<>> }

(***************************************************************************)
(* The state of one call.                                                  *)
(***************************************************************************)
VARIABLES
    pc,               \* where the call is
    system,           \* platform.system() of the control machine
    password,         \* the password argument ("" for None)
    local,            \* the local path: "missing", "directory" or "file"
    disk,             \* the bytes of the local file
    file_data,        \* the buffer read from it
    backend,          \* the backend function that is running, or "none"
    entered,          \* the backend functions called so far, in order
    absent,           \* the dependencies probed and found absent
    session,          \* the paramiko SSHClient: "none", "open", "closed"
    process,          \* the Popen handle: "none", "spawned", "waited", "killed"
    i,                \* the streaming loop's offset
    trace,            \* what the running backend did, in order
    sent,             \* the chunks emitted so far, concatenated
    remote,           \* the bytes of the remote path
    remote_size_str,  \* the stripped answer to the byte-count query
    ret,              \* what the backend function returned
    result            \* what transfer_interactive_python returned, or "raised"

vars == <<pc, system, password, local, disk, file_data, backend, entered, absent,
          session, process, i, trace, sent, remote, remote_size_str, ret, result>>

Event(op, off, len, arg) == [op |-> op, off |-> off, len |-> len, arg |-> arg]

Systems == {"Windows", "Unix"}
Passwords == {"", "secret"}

Init ==
    /\ pc = "start"
    /\ system \in Systems
    /\ password \in Passwords
    /\ \/ local = "missing" /\ disk = <<>>
       \/ local = "directory" /\ disk = <<>>
       \/ local = "file" /\ \E L \in Lengths : disk = FileBytes(L)
    /\ file_data = <<>>
    /\ backend = "none"
    /\ entered = <<>>
    /\ absent = {}
    /\ session = "none"
    /\ process = "none"
    /\ i = 0
    /\ trace = <<>>
    /\ sent = <<>>
    /\ remote = StaleRemote
    /\ remote_size_str = <<>>
    /\ ret = "none"
    /\ result = "none"

(***************************************************************************)
(* transfer_interactive_python                                             *)
(***************************************************************************)

(* the fault of taking every path to exist *)
path_exists_always(l) == TRUE

(* os.path.exists(local_path) *)
path_exists(l) == l # "missing"

(* if not os.path.exists(local_path): return False *)
CheckLocalPath ==
    /\ pc = "start"
    /\ IF ~path_exists(local)
       THEN pc' = "done" /\ result' = "False"
       ELSE pc' = "read" /\ result' = result
    /\ UNCHANGED <<system, password, local, disk, file_data, backend, entered, absent,
                   session, process, i, trace, sent, remote, remote_size_str, ret>>

(* with open(local_path, 'rb') as f: file_data = f.read() -- outside any try *)
ReadLocalFile ==
    /\ pc = "read"
    /\ IF local = "file"
       THEN pc' = "select" /\ file_data' = disk /\ result' = result
       ELSE pc' = "done" /\ file_data' = file_data /\ result' = "raised"
    /\ UNCHANGED <<system, password, local, disk, backend, entered, absent,
                   session, process, i, trace, sent, remote, remote_size_str, ret>>

FirstStep(b) ==
    CASE b = "paramiko" -> "pm_connect"
      [] b = "windows_openssh" -> "win_probe"
      [] OTHER -> "popen"

(* calling a backend function *)
Enter(b) ==
    /\ backend' = b
    /\ entered' = Append(entered, b)
    /\ pc' = FirstStep(b)
    /\ i' = 0
    /\ trace' = <<>>
    /\ ret' = "none"

(* transfer_windows, up to the first backend call: paramiko if it imports,
   else the Windows OpenSSH backend *)
WindowsChoice(installed) == IF installed THEN "paramiko" ELSE "windows_openssh"

TransferWindows ==
    /\ pc = "select"
    /\ system = "Windows"
    /\ \E installed \in BOOLEAN :
          /\ Enter(WindowsChoice(installed))
          /\ absent' = IF installed THEN absent ELSE absent \cup {"paramiko"}
    /\ UNCHANGED <<system, password, local, disk, file_data, session, process,
                   sent, remote, remote_size_str, result>>

(* the fault of preferring the library to the password helper *)
UnixChoiceLibraryFirst(pw, which, installed) ==
    IF installed THEN "paramiko"
    ELSE IF Truthy(pw) /\ which = "found" THEN "sshpass"
    ELSE "subprocess_basic"

(* transfer_unix: sshpass if a password was given and `which sshpass` finds
   it, else paramiko if it imports, else the basic pipe *)
UnixChoice(pw, which, installed) ==
    IF Truthy(pw) /\ which = "found" THEN "sshpass"
    ELSE IF installed THEN "paramiko"
    ELSE "subprocess_basic"

WhichOutcomes == {"found", "notfound", "raise"}

TransferUnix ==
    /\ pc = "select"
    /\ system # "Windows"
    /\ \E which \in WhichOutcomes, installed \in BOOLEAN :
          LET b == UnixChoice(password, which, installed)
          IN /\ Enter(b)
             /\ absent' = absent
                    \cup (IF Truthy(password) /\ which # "found" THEN {"sshpass"} ELSE {})
                    \cup (IF b = "subprocess_basic" THEN {"paramiko"} ELSE {})
    /\ UNCHANGED <<system, password, local, disk, file_data, session, process,
                   sent, remote, remote_size_str, result>>

(* the fault of going on to the basic pipe after a failed attempt *)
FallsThroughOnFailure(b, r) == b = "windows_openssh" /\ r # "True"

(* except Exception as e: (transfer_windows) -- only an exception leaving
   transfer_with_windows_openssh leads on to the basic pipe *)
FallsThrough(b, r) == b = "windows_openssh" /\ r = "raised"

(* the backend function has returned to transfer_windows / transfer_unix.
   Around the Windows OpenSSH call only, transfer_windows catches an
   exception and goes on to the basic pipe; every other call is
   `return transfer_with_...(...)`. *)
BackendReturns ==
    /\ pc = "return"
    /\ IF FallsThrough(backend, ret)
       THEN /\ Enter("subprocess_basic")
            /\ result' = result
       ELSE /\ pc' = "done"
            /\ result' = ret
            /\ UNCHANGED <<backend, entered, i, trace, ret>>
    /\ UNCHANGED <<system, password, local, disk, file_data, absent, session, process,
                   sent, remote, remote_size_str>>

inputs == <<system, password, local, disk, file_data>>
selection == <<backend, entered, absent, result>>

(* time.sleep(ms / 1000) *)
Sleep(ms) == IF ms > 0 THEN <<Event("sleep", 0, 0, ms)>> ELSE <<>>

(***************************************************************************)
(* The remote command protocol: what is put on the session or the pipe.    *)
(***************************************************************************)

(* the fault of never clearing the remote file *)
IssueTruncateSkipped(tr) == tr

(* `> {remote_path}` *)
IssueTruncate(tr) == Append(tr, Event("truncate", 0, 0, 0))

(* `printf "{octal_data}" >> {remote_path}` for the chunk at offset off *)
IssueAppend(tr, off, len) == Append(tr, Event("append", off, len, 0))

(* the fault of returning the verdict without asking for the size *)
IssueWcSkipped(tr) == tr

(* `wc -c < {remote_path}` *)
IssueWc(tr) == Append(tr, Event("wc", 0, 0, 0))

(* `exit` *)
IssueExit(tr) == Append(tr, Event("exit", 0, 0, 0))

(* stdout.channel.recv_exit_status() for the chunk at offset off *)
AwaitExit(tr, off, status) == Append(tr, Event("recv_exit_status", off, 0, status))

(* except Exception as e: print(...); return False *)
Caught(done) ==
    /\ trace' = done \o <<Event("raise", 0, 0, 0)>>
    /\ ret' = "False"
    /\ pc' = "return"

(***************************************************************************)
(* transfer_with_paramiko                                                  *)
(***************************************************************************)

(* ssh = paramiko.SSHClient(); ssh.connect(..., timeout=30) *)
PmConnect ==
    /\ pc = "pm_connect"
    /\ \E connected \in BOOLEAN :
          IF connected
          THEN /\ session' = "open"
               /\ trace' = Append(trace, Event("connect", 0, 0, 0))
               /\ pc' = "pm_truncate"
               /\ ret' = ret
          ELSE /\ session' = session
               /\ Caught(trace)
    /\ UNCHANGED <<inputs, selection, process, i, sent, remote, remote_size_str>>

(* ssh.exec_command(f'> {remote_path}'); time.sleep(0.5) *)
PmTruncate ==
    /\ pc = "pm_truncate"
    /\ \E issued \in BOOLEAN :
          IF issued
          THEN /\ trace' = IssueTruncate(trace) \o Sleep(500)
               /\ remote' = <<>>
               /\ pc' = "pm_loop"
               /\ ret' = ret
          ELSE /\ remote' = remote
               /\ Caught(trace)
    /\ UNCHANGED <<inputs, selection, session, process, i, sent, remote_size_str>>

PmChunkOutcomes == {"exec_raises", "exit_0", "exit_1", "exit_1_stderr_raises"}

(* the fault of giving up at the first command that fails *)
AfterExitStatusAborting(exit_status, r) ==
    IF exit_status # 0 THEN [pc |-> "return", ret |-> "False"]
    ELSE [pc |-> "pm_loop", ret |-> r]

(* if exit_status != 0: print(error) -- then the iteration goes on as for 0 *)
AfterExitStatus(exit_status, r) == [pc |-> "pm_loop", ret |-> r]

(* one iteration of `for i in range(0, len(file_data), chunk_size)`:
   exec_command, recv_exit_status, the log of a failure, time.sleep(0.01) *)
PmChunk ==
    /\ pc = "pm_loop"
    /\ InRange(i, Len(file_data))
    /\ LET S == chunk_size("paramiko")
           chunk == Slice(file_data, i, i + S)
           cmd == octal_data(chunk)
           issued == IssueAppend(trace, i, Len(chunk))
       IN \E outcome \in PmChunkOutcomes :
             CASE outcome = "exec_raises" ->
                    /\ Caught(trace)
                    /\ UNCHANGED <<i, sent, remote>>
               [] outcome = "exit_0" ->
                    /\ trace' = AwaitExit(issued, i, 0) \o Sleep(10)
                    /\ sent' = sent \o chunk
                    /\ remote' = remote \o RemotePrintf(cmd)
                    /\ i' = i + S
                    /\ pc' = AfterExitStatus(0, ret).pc
                    /\ ret' = AfterExitStatus(0, ret).ret
               [] outcome = "exit_1" ->
                    /\ trace' = AwaitExit(issued, i, 1) \o Sleep(10)
                    /\ sent' = sent \o chunk
                    /\ remote' = remote
                    /\ i' = i + S
                    /\ pc' = AfterExitStatus(1, ret).pc
                    /\ ret' = AfterExitStatus(1, ret).ret
               [] OTHER ->
                    /\ Caught(AwaitExit(issued, i, 1))
                    /\ sent' = sent \o chunk
                    /\ UNCHANGED <<i, remote>>
    /\ UNCHANGED <<inputs, selection, session, process, remote_size_str>>

(* the fault of failing on an answer that is no number *)
VerdictStrict(size_str, local_size) ==
    LET remote_size == int(size_str)
    IN IF remote_size.ok /\ remote_size.val = local_size THEN "True" ELSE "False"

(* the size check's verdict: equal sizes or an answer that is no number *)
Verdict(size_str, local_size) ==
    LET remote_size == int(size_str)
    IN IF remote_size.ok
       THEN (IF remote_size.val = local_size THEN "True" ELSE "False")
       ELSE "True"

PmVerifyOutcomes == {"exec_raises", "read_raises", "answered"}

(* after the loop: exec_command('wc -c < path'), the verdict, ssh.close() *)
PmVerify ==
    /\ pc = "pm_loop"
    /\ ~InRange(i, Len(file_data))
    /\ LET issued == IssueWc(trace)
       IN \E outcome \in PmVerifyOutcomes, raw \in WcResponses(Len(remote)) :
             CASE outcome = "exec_raises" ->
                    /\ Caught(trace)
                    /\ UNCHANGED <<session, remote_size_str>>
               [] outcome = "read_raises" ->
                    /\ Caught(issued)
                    /\ UNCHANGED <<session, remote_size_str>>
               [] OTHER ->
                    /\ remote_size_str' = strip(raw)
                    /\ ret' = Verdict(strip(raw), Len(file_data))
                    /\ trace' = Append(issued, Event("close", 0, 0, 0))
                    /\ session' = "closed"
                    /\ pc' = "return"
    /\ UNCHANGED <<inputs, selection, process, i, sent, remote>>

(***************************************************************************)
(* The pipe backends: transfer_with_windows_openssh, transfer_with_sshpass *)
(* and transfer_with_subprocess_basic.                                     *)
(***************************************************************************)

(* time.sleep after Popen, in ms *)
SettleDelay(b) == IF b = "sshpass" THEN 2000 ELSE 3000

(* time.sleep after the truncate command, in ms *)
TruncateDelay(b) == IF b = "sshpass" THEN 500 ELSE 1000

(* the fault of no delay in any pipe backend *)
ChunkDelayNone(b) == 0

(* time.sleep at the end of an iteration of the streaming loop, in ms *)
ChunkDelay(b) == IF b = "windows_openssh" THEN 50 ELSE 0

(* process.wait(timeout=...), in seconds *)
WaitTimeout(b) == IF b = "sshpass" THEN 10 ELSE 30

(* the fault of going on to spawn ssh although a password was given *)
RefusesPasswordNever(pw) == FALSE

(* if password: print(...); return False  (transfer_with_windows_openssh) *)
RefusesPassword(pw) == Truthy(pw)

(* transfer_with_windows_openssh before Popen: `ssh -V` must exit 0, and a
   password cannot be given to the OpenSSH client *)
WinProbe ==
    /\ pc = "win_probe"
    /\ \E returncode \in {0, 1} :
          IF returncode # 0
          THEN /\ Caught(trace)
               /\ absent' = absent \cup {"openssh"}
          ELSE /\ absent' = absent
               /\ trace' = trace
               /\ IF RefusesPassword(password)
                  THEN ret' = "False" /\ pc' = "return"
                  ELSE ret' = ret /\ pc' = "popen"
    /\ UNCHANGED <<inputs, backend, entered, result, session, process, i, sent, remote,
                   remote_size_str>>

(* process = subprocess.Popen(ssh_cmd, stdin=PIPE, ...); time.sleep(...) *)
PipeSpawn ==
    /\ pc = "popen"
    /\ \E spawned \in BOOLEAN :
          IF spawned
          THEN /\ process' = "spawned"
               /\ trace' = trace \o <<Event("spawn", 0, 0, 0)>> \o Sleep(SettleDelay(backend))
               /\ pc' = "pipe_truncate"
               /\ ret' = ret
          ELSE /\ process' = process
               /\ Caught(trace)
    /\ UNCHANGED <<inputs, selection, session, i, sent, remote, remote_size_str>>

(* process.stdin.write(f'> {remote_path}\n'); flush; time.sleep(...) *)
PipeTruncate ==
    /\ pc = "pipe_truncate"
    /\ \E written \in BOOLEAN :
          IF written
          THEN /\ trace' = IssueTruncate(trace) \o Sleep(TruncateDelay(backend))
               /\ remote' = <<>>
               /\ pc' = "pipe_loop"
               /\ ret' = ret
          ELSE /\ remote' = remote
               /\ Caught(trace)
    /\ UNCHANGED <<inputs, selection, session, process, i, sent, remote_size_str>>

PipeChunkOutcomes == {"broken_pipe", "exit_0", "exit_1"}

(* one iteration of the streaming loop: the printf line is written and
   flushed; nothing is read back *)
PipeChunk ==
    /\ pc = "pipe_loop"
    /\ InRange(i, Len(file_data))
    /\ LET S == chunk_size(backend)
           chunk == Slice(file_data, i, i + S)
           cmd == octal_data(chunk)
           issued == IssueAppend(trace, i, Len(chunk))
       IN \E outcome \in PipeChunkOutcomes :
             CASE outcome = "broken_pipe" ->
                    /\ Caught(trace)
                    /\ UNCHANGED <<i, sent, remote>>
               [] OTHER ->
                    /\ trace' = issued \o Sleep(ChunkDelay(backend))
                    /\ sent' = sent \o chunk
                    /\ remote' = IF outcome = "exit_0"
                                 THEN remote \o RemotePrintf(cmd) ELSE remote
                    /\ i' = i + S
                    /\ UNCHANGED <<pc, ret>>
    /\ UNCHANGED <<inputs, selection, session, process, remote_size_str>>

PipeExitOutcomes == {"broken_pipe", "exited", "timeout"}

(* the fault of returning False with the process left running *)
OnTimeoutLeavesRunning(tr) == [trace |-> tr, process |-> "spawned", ret |-> "False"]

(* except subprocess.TimeoutExpired: process.kill(); return False *)
OnTimeout(tr) ==
    [trace |-> Append(tr, Event("kill", 0, 0, 0)), process |-> "killed", ret |-> "False"]

(* after the loop: write exit, flush, process.wait(timeout); on
   TimeoutExpired process.kill() *)
PipeExit ==
    /\ pc = "pipe_loop"
    /\ ~InRange(i, Len(file_data))
    /\ LET issued == Append(IssueExit(trace), Event("wait", 0, 0, WaitTimeout(backend)))
       IN \E outcome \in PipeExitOutcomes :
             CASE outcome = "broken_pipe" ->
                    /\ Caught(trace)
                    /\ process' = process
               [] outcome = "exited" ->
                    /\ trace' = issued
                    /\ process' = "waited"
                    /\ ret' = "True"
                    /\ pc' = "return"
               [] OTHER ->
                    LET handled == OnTimeout(Append(issued, Event("TimeoutExpired", 0, 0, 0)))
                    IN /\ trace' = handled.trace
                       /\ process' = handled.process
                       /\ ret' = handled.ret
                       /\ pc' = "return"
    /\ UNCHANGED <<inputs, selection, session, i, sent, remote, remote_size_str>>

Next ==
    \/ CheckLocalPath
    \/ ReadLocalFile
    \/ TransferWindows
    \/ TransferUnix
    \/ BackendReturns
    \/ PmConnect
    \/ PmTruncate
    \/ PmChunk
    \/ PmVerify
    \/ WinProbe
    \/ PipeSpawn
    \/ PipeTruncate
    \/ PipeChunk
    \/ PipeExit

Spec == Init /\ [][Next]_vars

TypeOK ==
    /\ result \in {"none", "True", "False", "raised"}
    /\ ret \in {"none", "True", "False", "raised"}
    /\ backend \in Backends \cup {"none"}
    /\ session \in {"none", "open", "closed"}
    /\ process \in {"none", "spawned", "waited", "killed"}

(***************************************************************************)
(* Reading the trace.                                                      *)
(***************************************************************************)
Idx(op) == {k \in DOMAIN trace : trace[k].op = op}
Count(op) == Cardinality(Idx(op))
IsAppend(e) == e.op = "append"
AppendsSent == SelectSeq(trace, IsAppend)
Returned == pc \in {"return", "done"} /\ backend # "none"
NormalReturn == Returned /\ Count("raise") = 0
LastChunkSent ==
    /\ file_data # <<>>
    /\ \E a \in Idx("append") : trace[a].off + trace[a].len = Len(file_data)

(* ceil(L / S), not by the program's formula *)
Ceil(L, S) == CHOOSE n \in 0..L : n * S >= L /\ (n = 0 \/ (n - 1) * S < L)

(***************************************************************************)
(* C1: if the call returns True, the remote file holds exactly the bytes   *)
(* of the local buffer, in order.  The code does not establish this: the   *)
(* pipe backends return True when the ssh process exits, and the paramiko  *)
(* backend returns True on an unparsable byte count.                       *)
(***************************************************************************)
C1_SuccessMeansSameBytes == result = "True" => remote = file_data

Dependency(b) ==
    CASE b = "paramiko" -> "paramiko"
      [] b = "windows_openssh" -> "openssh"
      [] b = "sshpass" -> "sshpass"
      [] OTHER -> "ssh"

C3_AbsentDependencyFallsThrough ==
    pc = "done" /\ backend # "none" => Dependency(backend) \notin absent

FirstAvailable ==
    IF system = "Windows"
    THEN (IF "paramiko" \notin absent THEN "paramiko" ELSE "windows_openssh")
    ELSE IF Truthy(password) /\ "sshpass" \notin absent THEN "sshpass"
    ELSE IF "paramiko" \notin absent THEN "paramiko"
    ELSE "subprocess_basic"

C5_HandleReleasedOnReturn ==
    Returned => session # "open" /\ process # "spawned"

(***************************************************************************)
(* C6: the call ends with a boolean; no exception leaves it.  open() and   *)
(* read() of the local file are outside every try.                         *)
(***************************************************************************)
C6_NoExceptionPropagates == pc = "done" => result \in {"True", "False"}

(***************************************************************************)
(* C7, as claimed: between two consecutive append commands the first one's *)
(* completion is awaited or a non-zero delay elapses, in every backend.    *)
(***************************************************************************)
Consecutive(a, b) ==
    /\ a \in Idx("append")
    /\ b \in Idx("append")
    /\ a < b
    /\ \A k \in (a + 1)..(b - 1) : trace[k].op # "append"

Awaited(a, b) ==
    \E k \in (a + 1)..(b - 1) :
        trace[k].op = "recv_exit_status" /\ trace[k].off = trace[a].off

Delayed(a, b, ms) ==
    \E k \in (a + 1)..(b - 1) : trace[k].op = "sleep" /\ trace[k].arg >= ms

C7_RoundTripBetweenChunks ==
    \A a, b \in DOMAIN trace :
        Consecutive(a, b) => Awaited(a, b) \/ Delayed(a, b, 1)

(***************************************************************************)
(* C7, amended: chunks are sent one at a time in ascending order in every  *)
(* backend.  The paramiko backend awaits the exit status of chunk i's      *)
(* command (and sleeps 10 ms), the Windows OpenSSH backend sleeps 50 ms,   *)
(* before chunk i+1 is sent; the sshpass and basic pipe backends write     *)
(* chunk i+1 right after the write and flush of chunk i, with no wait.     *)
(***************************************************************************)
C7_RoundTripWhereTheCodeWaits ==
    \A a, b \in DOMAIN trace :
        Consecutive(a, b) =>
            /\ trace[a].off < trace[b].off
            /\ backend = "paramiko" => Awaited(a, b) /\ Delayed(a, b, 10)
            /\ backend = "windows_openssh" => Delayed(a, b, 50)
            /\ backend \in {"sshpass", "subprocess_basic"} => b = a + 1

C7_Witness ==
    /\ backend = "windows_openssh"
    /\ Count("append") >= 3
    /\ pc = "done"
    /\ result = "True"

(***************************************************************************)
(* C8: in the paramiko backend, a byte count equal to the local length     *)
(* gives True, any other number gives False, and an answer that is no      *)
(* number gives True.                                                      *)
(***************************************************************************)
Verified == backend = "paramiko" /\ Count("close") = 1

C8_VerdictFollowsByteCount ==
    Verified =>
        /\ remote_size_str = DecimalDigits(Len(file_data)) => ret = "True"
        /\ (\E n \in 0..(Len(file_data) + Len(StaleRemote)) :
               n # Len(file_data) /\ remote_size_str = DecimalDigits(n)) => ret = "False"
        /\ remote_size_str = <<>> => ret = "True"
        /\ remote_size_str \in {<<>>, DecimalDigits(Len(remote))}
        /\ pc = "done" => result = ret

C8_Witness ==
    /\ Verified
    /\ pc = "done"
    /\ remote_size_str = <<>>
    /\ Len(remote) # Len(file_data)
    /\ result = "True"

(***************************************************************************)
(* C9: the streaming loop cuts a buffer of length L into ceil(L/S) chunks  *)
(* that are adjacent, non-empty, of length S except possibly the last, and *)
(* whose concatenation in emission order is the buffer.                    *)
(***************************************************************************)
ChunksAdjacent ==
    \A k \in DOMAIN AppendsSent :
        /\ AppendsSent[k].off = (IF k = 1 THEN 0
                                 ELSE AppendsSent[k - 1].off + AppendsSent[k - 1].len)
        /\ AppendsSent[k].len > 0
        /\ AppendsSent[k].len <= chunk_size(backend)
        /\ k < Len(AppendsSent) => AppendsSent[k].len = chunk_size(backend)

C9_ChunksCoverBuffer ==
    backend # "none" =>
        /\ ChunksAdjacent
        /\ sent = SubSeq(file_data, 1, Len(sent))
        /\ Len(sent) = (IF AppendsSent = <<>> THEN 0
                        ELSE AppendsSent[Len(AppendsSent)].off
                             + AppendsSent[Len(AppendsSent)].len)
        /\ (pc \in {"pm_loop", "pipe_loop"} /\ i >= Len(file_data)) =>
              /\ Len(AppendsSent) = Ceil(Len(file_data), chunk_size(backend))
              /\ sent = file_data

C9_Witness ==
    /\ pc = "pipe_loop"
    /\ i >= Len(file_data)
    /\ Len(file_data) = 2048
    /\ chunk_size(backend) = 800
    /\ Len(AppendsSent) = 3
    /\ AppendsSent[1].len = 800
    /\ AppendsSent[2].len = 800
    /\ AppendsSent[3].len = 448

(***************************************************************************)
(* C10: the truncate command is issued once, before any append; appends    *)
(* go out one per chunk in ascending offset order; none follows the exit   *)
(* command or the close of the session.                                    *)
(***************************************************************************)
C10_TruncateOnceThenAppendsInOrder ==
    /\ Count("truncate") <= 1
    /\ pc \in {"pm_loop", "pipe_loop"} => Count("truncate") = 1
    /\ NormalReturn /\ (session # "none" \/ process # "none") => Count("truncate") = 1
    /\ \A a \in Idx("append") : \E t \in Idx("truncate") : t < a
    /\ \A a, b \in Idx("append") : a < b => trace[a].off < trace[b].off
    /\ \A a \in Idx("append") : trace[a].off % chunk_size(backend) = 0
    /\ \A a \in Idx("append"), e \in Idx("exit") \cup Idx("close") : a < e

C10_Witness ==
    /\ pc = "done"
    /\ backend = "sshpass"
    /\ Count("truncate") = 1
    /\ Count("append") = 3
    /\ Count("exit") = 1

(***************************************************************************)
(* C11: for a zero-length local file every backend issues the truncate     *)
(* command and no append command at all (no printf is ever issued with an  *)
(* empty argument), and the paramiko backend returns True when the remote  *)
(* byte count is 0.                                                        *)
(***************************************************************************)
C11_EmptyFileTruncatesOnly ==
    /\ \A a \in Idx("append") : trace[a].len > 0
    /\ (backend # "none" /\ file_data = <<>>) =>
          /\ Count("append") = 0
          /\ sent = <<>>
          /\ pc \in {"pm_loop", "pipe_loop"} => Count("truncate") = 1 /\ remote = <<>>
          /\ NormalReturn /\ (session # "none" \/ process # "none") =>
                Count("truncate") = 1 /\ remote = <<>>
          /\ (Verified /\ remote_size_str = <<"0">>) => ret = "True"
          /\ (Verified /\ remote_size_str = <<"0">> /\ pc = "done") => result = "True"

C11_Witness ==
    /\ pc = "done"
    /\ backend = "paramiko"
    /\ local = "file"
    /\ file_data = <<>>
    /\ Count("truncate") = 1
    /\ Count("append") = 0
    /\ remote_size_str = <<"0">>
    /\ result = "True"

(***************************************************************************)
(* C12: in a pipe backend, when the wait that follows the exit command     *)
(* times out (10 s for sshpass, 30 s for the other two), the process is    *)
(* killed and the backend returns False; a backend that has waited never   *)
(* returns with the process still running.                                 *)
(***************************************************************************)
C12_TimeoutKillsAndFails ==
    /\ \A t \in Idx("TimeoutExpired") :
          /\ backend \in PipeBackends
          /\ \E e \in Idx("exit"), w \in Idx("wait") :
                /\ e < w
                /\ w < t
                /\ trace[w].arg = (IF backend = "sshpass" THEN 10 ELSE 30)
          /\ \E k \in Idx("kill") : t < k
          /\ process = "killed"
          /\ ret = "False"
          /\ pc \in {"return", "done"}
          /\ pc = "done" => result = "False"
    /\ Count("kill") <= Count("TimeoutExpired")
    /\ (Returned /\ Count("wait") > 0) => process \in {"waited", "killed"}

C12_Witness ==
    /\ pc = "done"
    /\ backend = "subprocess_basic"
    /\ Count("append") = 3
    /\ Count("exit") = 1
    /\ Count("TimeoutExpired") = 1
    /\ process = "killed"
    /\ result = "False"

(***************************************************************************)
(* C13: when the local path does not exist the call returns False at       *)
(* once: no backend is selected, no session or process is opened, no       *)
(* remote command is issued and the remote file is left as it was.         *)
(***************************************************************************)
C13_MissingFileFailsAtOnce ==
    local = "missing" =>
        /\ pc \in {"start", "done"}
        /\ pc = "done" => result = "False"
        /\ pc = "start" => result = "none"
        /\ backend = "none"
        /\ entered = <<>>
        /\ absent = {}
        /\ session = "none"
        /\ process = "none"
        /\ trace = <<>>
        /\ file_data = <<>>
        /\ remote = StaleRemote

C13_Witness ==
    /\ local = "missing"
    /\ pc = "done"
    /\ result = "False"
    /\ trace = <<>>

(***************************************************************************)
(* The encoder on its own: the paramiko backend, connected and with the    *)
(* remote file truncated, about to stream a local file that is one chunk:  *)
(* any single byte, any run of NUL, newline, double quote and backslash,   *)
(* or a full chunk of 800 bytes.                                           *)
(***************************************************************************)
SpecialBytes == {0, 10, 34, 92}

EncoderChunks ==
    {<<b>> : b \in 0..255}
        \cup UNION {[1..n -> SpecialBytes] : n \in 2..MaxEscapeRun}
        \cup {FileBytes(PARAMIKO_CHUNK_SIZE)}

InitEncoder ==
    /\ pc = "pm_loop"
    /\ system = "Unix"
    /\ password = ""
    /\ local = "file"
    /\ \E chunk \in EncoderChunks : disk = chunk /\ file_data = chunk
    /\ backend = "paramiko"
    /\ entered = <<"paramiko">>
    /\ absent = {}
    /\ session = "open"
    /\ process = "none"
    /\ i = 0
    /\ trace = IssueTruncate(<<Event("connect", 0, 0, 0)>>) \o Sleep(500)
    /\ sent = <<>>
    /\ remote = <<>>
    /\ remote_size_str = <<>>
    /\ ret = "none"
    /\ result = "none"

NextEncoder == PmChunk

SpecEncoder == InitEncoder /\ [][NextEncoder]_vars

(***************************************************************************)
(* C14: the encoder emits, for each byte, a backslash and exactly three    *)
(* octal digits that spell the byte's value (four characters per byte,     *)
(* nothing but backslashes and the digits 0-7), and the remote printf      *)
(* turns the command's argument back into the chunk, for every byte value  *)
(* 0..255, NUL, newline, double quote and backslash included.              *)
(***************************************************************************)
C14_OctalEscapeRoundTrip ==
    LET e == octal_data(file_data)
    IN /\ Len(e) = 4 * Len(file_data)
       /\ \A k \in 1..Len(e) :
             IF k % 4 = 1 THEN e[k] = "\\" ELSE e[k] \in {"0", "1", "2", "3", "4", "5", "6", "7"}
       /\ \A j \in 1..Len(file_data) :
             64 * DigitVal(e[4 * j - 2]) + 8 * DigitVal(e[4 * j - 1]) + DigitVal(e[4 * j])
                 = file_data[j]
       /\ RemotePrintf(e) = file_data
       /\ (\E k \in Idx("recv_exit_status") : trace[k].arg = 0) => remote = file_data

C14_Witness ==
    /\ file_data = <<0, 10, 34, 92>>
    /\ \E k \in Idx("recv_exit_status") : trace[k].arg = 0
    /\ remote = <<0, 10, 34, 92>>

(***************************************************************************)
(* C15: in the paramiko backend a non-zero exit status of an append        *)
(* command is logged and the loop goes on: the remaining chunks are still  *)
(* appended in order, the size is still verified, and the value returned   *)
(* is the verdict of the size check alone.  (Stated of the runs in which   *)
(* no exception is caught: an exception, also one raised while reading     *)
(* the failed command's standard error, ends the run with False.)          *)
(***************************************************************************)
FailedAppends == {k \in Idx("recv_exit_status") : trace[k].arg # 0}

RemoteCommands == {"truncate", "append", "wc", "exit"}

C17_WindowsPasswordWithoutLibraryFails ==
    (system = "Windows" /\ password # "" /\ "paramiko" \in absent) =>
        /\ entered = <<"windows_openssh">>
        /\ backend = "windows_openssh"
        /\ pc \in {"win_probe", "return", "done"}
        /\ session = "none"
        /\ process = "none"
        /\ \A k \in DOMAIN trace : trace[k].op \notin RemoteCommands \cup {"spawn", "connect"}
        /\ remote = StaleRemote
        /\ pc \in {"return", "done"} => ret = "False"
        /\ pc = "done" => result = "False"

C17_Witness ==
    /\ system = "Windows"
    /\ password = "secret"
    /\ absent = {"paramiko"}
    /\ entered = <<"windows_openssh">>
    /\ pc = "done"
    /\ trace = <<>>
    /\ process = "none"
    /\ result = "False"

====
